---- MODULE Spec2Model ----
(***************************************************************************)
(* MLAnalyticsEngine (backend/services/ml/analytics_engine.py): the        *)
(* adverse-event analytics engine, as a state machine.                     *)
(*                                                                         *)
(* State: the three persisted artifacts under models/, the engine          *)
(* instance (anomaly_detector, risk_classifier, scaler), the last call     *)
(* and what it returned.  One action per public method; every action is    *)
(* the whole method.  The scikit-learn estimators are external: what they  *)
(* compute (clusters, outlier flags and scores, class probabilities) is    *)
(* an input of the action, what they hold (fitted or not, on which batch,  *)
(* with which column layout and classes) is state.                         *)
(*                                                                         *)
(* Numbers: probabilities and scores are in thousandths (0.7 is 700),      *)
(* rates are exact fractions compared by cross multiplication.  Within     *)
(* the batch sizes used here the comparisons and   *)
(* roundings agree with the IEEE doubles of the source.                    *)
(***************************************************************************)
EXTENDS Integers, Sequences, FiniteSets, Bags, TLC

VARIABLES disk, engine, call, ret

vars == <<disk, engine, call, ret>>

(***************************************************************************)
(* Bounds of the model.                                                    *)
(***************************************************************************)
MaxAge == 80
MaxSymptoms == 6
MaxSignalEvents == 7
MaxFlagged == 11
BigBatch == 110
TrainLen == 2

(***************************************************************************)
(* Program constants.                                                      *)
(***************************************************************************)
PatternMin == 10
SignalMin == 5
AnomalyMin == 20
TopAnomalies == 10
RecentDays == 90

(***************************************************************************)
(* Event records.  symptoms and concurrent_medications are kept by their   *)
(* length, the only thing the engine reads of them.  event_date is the     *)
(* number of whole days before now, or unparsable text (ok = FALSE).       *)
(***************************************************************************)
Severities == {"mild", "moderate", "severe", "life_threatening", "unrecognized"}

Event(sev, out, age, hosp, lt, nsym, nmed, allergies, dateOk, days) ==
    [id |-> 0, severity |-> sev, outcome |-> out, patient_age |-> age,
     required_hospitalization |-> hosp, life_threatening |-> lt,
     symptoms |-> nsym, concurrent_medications |-> nmed,
     has_allergies |-> allergies, event_date |-> [ok |-> dateOk, days |-> days]]

MildEvent == Event("mild", "recovered", 40, FALSE, FALSE, 1, 0, FALSE, TRUE, 200)
SevereEvent == Event("severe", "not_recovered", 70, TRUE, FALSE, 3, 2, TRUE, TRUE, 10)
BadDateEvent == Event("mild", "recovered", 40, FALSE, FALSE, 1, 0, FALSE, FALSE, 0)

\* _encode_severity
EncodeSeverity(severity) ==
    CASE severity = "mild" -> 1
      [] severity = "moderate" -> 2
      [] severity = "severe" -> 3
      [] severity = "life_threatening" -> 4
      [] OTHER -> 2

\* _encode_outcome
EncodeOutcome(outcome) ==
    CASE outcome = "recovered" -> 1
      [] outcome = "recovering" -> 2
      [] outcome = "not_recovered" -> 3
      [] outcome = "death" -> 4
      [] OTHER -> 0

\* _encode_age_group
EncodeAgeGroup(age) ==
    IF age < 18 THEN 1 ELSE IF age < 65 THEN 2 ELSE 3

Bit(b) == IF b THEN 1 ELSE 0

(***************************************************************************)
(* Rule-based risk.  Scores are in thousandths: 0.4 is 400.                *)
(***************************************************************************)
Min(a, b) == IF a < b THEN a ELSE b

Max(a, b) == IF a > b THEN a ELSE b

SeverityPoints(severity) ==
    CASE severity = "life_threatening" -> 400
      [] severity = "severe" -> 300
      [] severity = "moderate" -> 150
      [] OTHER -> 0

RuleSum(event_data) ==
    SeverityPoints(event_data.severity)
    + (IF event_data.required_hospitalization THEN 250 ELSE 0)
    + (IF event_data.life_threatening THEN 200 ELSE 0)
    + (IF event_data.patient_age < 5 \/ event_data.patient_age > 75 THEN 100 ELSE 0)
    + (IF event_data.symptoms > 5 THEN 100 ELSE 0)

\* the sum returned without the clamp of line 323
CalculateRuleBasedRiskUnclamped(event_data) == RuleSum(event_data)

\* _calculate_rule_based_risk
CalculateRuleBasedRisk(event_data) == Min(RuleSum(event_data), 1000)

\* _classify_risk_level
ClassifyRiskLevel(risk_score) ==
    IF risk_score >= 700 THEN "critical"
    ELSE IF risk_score >= 500 THEN "high"
    ELSE IF risk_score >= 300 THEN "moderate"
    ELSE "low"

\* _generate_risk_recommendations: one fixed list per band, named by its first line
GenerateRiskRecommendations(risk_score) ==
    IF risk_score >= 700 THEN "Immediate medical attention required"
    ELSE IF risk_score >= 500 THEN "Close medical monitoring required"
    ELSE IF risk_score >= 300 THEN "Monitor symptoms closely"
    ELSE "Continue monitoring"

(***************************************************************************)
(* Feature vectors.  Both layouts have 7 columns; the layout tag says      *)
(* what the columns mean.                                                  *)
(***************************************************************************)
NFeatures == 7

\* one row of _extract_event_features
PatternRow(row) ==
    <<EncodeSeverity(row.severity), EncodeOutcome(row.outcome),
      EncodeAgeGroup(row.patient_age), Bit(row.required_hospitalization),
      Bit(row.life_threatening), row.symptoms, row.event_date.days>>

\* _extract_event_features: pd.to_datetime raises on unparsable text
ExtractEventFeatures(events) ==
    IF \E i \in 1..Len(events) : ~events[i].event_date.ok
    THEN [ok |-> FALSE, layout |-> "pattern", rows |-> <<>>]
    ELSE [ok |-> TRUE, layout |-> "pattern",
          rows |-> [i \in 1..Len(events) |-> PatternRow(events[i])]]

\* the feature row of predict_risk_score
RiskFeatures(event_data) ==
    [ok |-> TRUE, layout |-> "risk",
     rows |-> << <<EncodeSeverity(event_data.severity),
                   EncodeAgeGroup(event_data.patient_age),
                   Bit(event_data.required_hospitalization),
                   Bit(event_data.life_threatening), event_data.symptoms,
                   event_data.concurrent_medications,
                   Bit(event_data.has_allergies)>> >>]

(***************************************************************************)
(* StandardScaler.  mean_ and scale_ are functions of the sample count and *)
(* of each column's sum and sum of squares, which is what is kept.         *)
(***************************************************************************)
\* the sum over the rows of column c, or of its squares: the size of the bag
\* that holds row k as many times as the entry says
ColSum(rows, c, sq) ==
    BagCardinality([k \in {j \in 1..Len(rows) : rows[j][c] > 0} |->
                       IF sq THEN rows[k][c] * rows[k][c] ELSE rows[k][c]])

UnfittedScaler ==
    [fitted |-> FALSE, layout |-> "none", n_samples_seen |-> 0,
     sum |-> [c \in 1..NFeatures |-> 0], sumsq |-> [c \in 1..NFeatures |-> 0]]

StatsOfRows(layout, rows) ==
    [fitted |-> TRUE, layout |-> layout, n_samples_seen |-> Len(rows),
     sum |-> [c \in 1..NFeatures |-> ColSum(rows, c, FALSE)],
     sumsq |-> [c \in 1..NFeatures |-> ColSum(rows, c, TRUE)]]

\* StandardScaler.fit: the previous statistics are dropped.  (The rows are
\* bound once, so that they are computed once.)
FitScaler(features) ==
    CHOOSE stats \in {StatsOfRows(features.layout, rows) : rows \in {features.rows}} : TRUE

\* StandardScaler.transform: NotFittedError unless fitted
TransformRaises(scaler, features) ==
    ~scaler.fitted \/ Len(features.rows[1]) # NFeatures

FreshDetector == [fitted |-> FALSE, layout |-> "none", n_samples |-> 0]

FreshClassifier == [fitted |-> FALSE, layout |-> "none", classes |-> {}]

NoObject == [fitted |-> FALSE, layout |-> "none"]

(***************************************************************************)
(* The artifacts under models/.  A file is missing, present and loadable   *)
(* (ok) or present and not loadable (a truncated or foreign pickle).       *)
(* call names the train_models call that wrote it.                         *)
(***************************************************************************)
Files == <<"anomaly_detector", "risk_classifier", "scaler">>

MissingFile == [state |-> "missing", call |-> 0, obj |-> NoObject]

CorruptFile == [state |-> "corrupt", call |-> 0, obj |-> NoObject]

SavedFile(callId, object) == [state |-> "ok", call |-> callId, obj |-> object]

\* joblib.load: the object, FileNotFoundError, or another exception
LoadOutcome(file) ==
    CASE file.state = "ok" -> "loaded"
      [] file.state = "missing" -> "FileNotFoundError"
      [] OTHER -> "UnpicklingError"

NoEngine ==
    [alive |-> FALSE, anomaly_detector |-> FreshDetector,
     risk_classifier |-> FreshClassifier, scaler |-> UnfittedScaler,
     loaded |-> FALSE, train_called |-> FALSE]

\* initialize_models: the two estimators are replaced, the scaler is not touched
InitializeModels(self) ==
    [self EXCEPT !.anomaly_detector = FreshDetector,
                 !.risk_classifier = FreshClassifier]

\* load_models: the three loads in order; only FileNotFoundError is caught
LoadModels(self, d) ==
    LET first == IF LoadOutcome(d.anomaly_detector) # "loaded" THEN 1
                 ELSE IF LoadOutcome(d.risk_classifier) # "loaded" THEN 2
                 ELSE IF LoadOutcome(d.scaler) # "loaded" THEN 3
                 ELSE 0
    IN  IF first = 0
        THEN [self |-> [self EXCEPT !.anomaly_detector = d.anomaly_detector.obj,
                                    !.risk_classifier = d.risk_classifier.obj,
                                    !.scaler = d.scaler.obj,
                                    !.loaded = TRUE],
              raised |-> "none"]
        ELSE IF LoadOutcome(d[Files[first]]) = "FileNotFoundError"
        THEN [self |-> InitializeModels(self), raised |-> "none"]
        ELSE [self |-> NoEngine, raised |-> LoadOutcome(d[Files[first]])]

\* __init__
Construct(d) ==
    LoadModels([alive |-> TRUE, anomaly_detector |-> FreshDetector,
                risk_classifier |-> FreshClassifier, scaler |-> UnfittedScaler,
                loaded |-> FALSE, train_called |-> FALSE], d)

(***************************************************************************)
(* Batches.  A batch is named by its length and its make-up; Events gives  *)
(* its records.  "mixed" alternates MildEvent and SevereEvent, "baddate"   *)
(* is "mixed" with an unparsable event_date in its last record.            *)
(***************************************************************************)
NoBatch == [len |-> 0, variant |-> "none"]

Events(b) ==
    [i \in 1..b.len |->
        [(CASE b.variant = "mild" -> MildEvent
            [] b.variant = "severe" -> SevereEvent
            [] b.variant = "baddate" /\ i = b.len -> BadDateEvent
            [] OTHER -> IF i % 2 = 1 THEN MildEvent ELSE SevereEvent)
         EXCEPT !.id = i]]

Count(events, P(_)) == Cardinality({i \in 1..Len(events) : P(events[i])})

(***************************************************************************)
(* detect_adverse_event_patterns.  labels is what DBSCAN.fit_predict       *)
(* returns: a cluster id per record, -1 for noise.                         *)
(***************************************************************************)
Returned(self, value) == [self |-> self, raised |-> "none", value |-> value]

NoValue == [no_value |-> TRUE]

Raised(self, exception) == [self |-> self, raised |-> exception, value |-> NoValue]

InsufficientPatterns ==
    [patterns |-> <<>>, message |-> "Insufficient data for pattern detection"]

\* _analyze_cluster, reduced to the cluster's id and size
AnalyzeCluster(labels, cluster_id) ==
    [cluster_id |-> cluster_id,
     size |-> Cardinality({i \in 1..Len(labels) : labels[i] = cluster_id})]

RECURSIVE SetToSeq(_)
SetToSeq(S) ==
    IF S = {} THEN <<>>
    ELSE LET m == CHOOSE x \in S : \A y \in S : x <= y
         IN  <<m>> \o SetToSeq(S \ {m})

PatternReport(labels) ==
    LET ids == {labels[i] : i \in 1..Len(labels)}
        order == SetToSeq(ids \ {-1})
    IN  [patterns |-> [k \in 1..Len(order) |-> AnalyzeCluster(labels, order[k])],
         total_clusters |-> Cardinality(ids) - (IF -1 \in ids THEN 1 ELSE 0),
         noise_points |-> Cardinality({i \in 1..Len(labels) : labels[i] = -1})]

\* the length test of line 67 written with <=
DetectPatternsOffByOne(self, events, labels) ==
    IF Len(events) <= PatternMin THEN Returned(self, InsufficientPatterns)
    ELSE LET features == ExtractEventFeatures(events)
         IN  IF ~features.ok THEN Raised(self, "DateParseError")
             ELSE Returned([self EXCEPT !.scaler = FitScaler(features)],
                           PatternReport(labels))

\* detect_adverse_event_patterns
DetectAdverseEventPatterns(self, events, labels) ==
    IF Len(events) < PatternMin THEN Returned(self, InsufficientPatterns)
    ELSE LET features == ExtractEventFeatures(events)
         IN  IF ~features.ok THEN Raised(self, "DateParseError")
             ELSE Returned([self EXCEPT !.scaler = FitScaler(features)],
                           PatternReport(labels))

(***************************************************************************)
(* detect_safety_signals.  A rate is the pair <<numerator, denominator>>.  *)
(***************************************************************************)
\* a / b > p / q, for positive b and q
RateGt(rate, p, q) == rate[1] * q > p * rate[2]

\* round(x, 3) in thousandths: to nearest, a tie to the even digit
Round3(rate) ==
    LET scaled == 1000 * rate[1]
        floor == scaled \div rate[2]
        twice == 2 * (scaled % rate[2])
    IN  IF twice > rate[2] \/ (twice = rate[2] /\ floor % 2 = 1)
        THEN floor + 1 ELSE floor

IsSevere(e) == e.severity \in {"severe", "life_threatening"}

IsHospitalized(e) == e.required_hospitalization

IsDeath(e) == e.outcome = "death"

IsRecent(e) == e.event_date.days <= RecentDays

IsRecentSevere(e) == IsRecent(e) /\ IsSevere(e)

\* _classify_signal_type with the first two tests in the other order
ClassifySignalTypeSwapped(severe_rate, hosp_rate, death_rate, recent_rate) ==
    IF RateGt(hosp_rate, 15, 100) \/ RateGt(recent_rate, 3, 10) THEN "high"
    ELSE IF RateGt(death_rate, 2, 100) THEN "critical"
    ELSE IF RateGt(severe_rate, 20, 100) THEN "moderate"
    ELSE "low"

\* _classify_signal_type
ClassifySignalType(severe_rate, hosp_rate, death_rate, recent_rate) ==
    IF RateGt(death_rate, 2, 100) THEN "critical"
    ELSE IF RateGt(hosp_rate, 15, 100) \/ RateGt(recent_rate, 3, 10) THEN "high"
    ELSE IF RateGt(severe_rate, 20, 100) THEN "moderate"
    ELSE "low"

\* _generate_signal_recommendation: the fixed text per tier, by its first words
GenerateSignalRecommendation(signal_type) ==
    CASE signal_type = "critical" -> "URGENT"
      [] signal_type = "high" -> "HIGH PRIORITY"
      [] signal_type = "moderate" -> "MODERATE"
      [] signal_type = "low" -> "LOW"
      [] OTHER -> "Review and monitor."

InsufficientSignal ==
    [signal_detected |-> FALSE, message |-> "Insufficient data for signal detection"]

\* detect_safety_signals; self is not read or written
DetectSafetySignals(self, medicine_id, events) ==
    IF Len(events) < SignalMin THEN Returned(self, InsufficientSignal)
    ELSE
    LET n == Len(events)
        severe_event_rate == <<Count(events, IsSevere), n>>
        hospitalization_rate == <<Count(events, IsHospitalized), n>>
        death_rate == <<Count(events, IsDeath), n>>
        recent_events == Count(events, IsRecent)
        recent_severe_rate ==
            <<Count(events, IsRecentSevere), Max(recent_events, 1)>>
        \* recent_severe_rate > severe_event_rate * 1.5
        trend == 2 * recent_severe_rate[1] * n
                   > 3 * severe_event_rate[1] * recent_severe_rate[2]
        signal_detected ==
            \/ RateGt(severe_event_rate, 15, 100)
            \/ RateGt(hospitalization_rate, 10, 100)
            \/ RateGt(death_rate, 2, 100)
            \/ trend
        signal_type == ClassifySignalType(severe_event_rate, hospitalization_rate,
                                          death_rate, recent_severe_rate)
    IN  IF \E i \in 1..n : ~events[i].event_date.ok
        THEN Raised(self, "DateParseError")
        ELSE IF signal_detected
        THEN Returned(self,
               [signal_detected |-> TRUE, medicine_id |-> medicine_id,
                signal_type |-> signal_type,
                metrics |-> [severe_event_rate |-> Round3(severe_event_rate),
                             hospitalization_rate |-> Round3(hospitalization_rate),
                             death_rate |-> Round3(death_rate),
                             recent_severe_rate |-> Round3(recent_severe_rate),
                             total_events |-> n,
                             recent_events |-> recent_events],
                recommendation |-> GenerateSignalRecommendation(signal_type)])
        ELSE Returned(self,
               [signal_detected |-> FALSE, medicine_id |-> medicine_id,
                metrics |-> [severe_event_rate |-> Round3(severe_event_rate),
                             hospitalization_rate |-> Round3(hospitalization_rate),
                             death_rate |-> Round3(death_rate),
                             total_events |-> n]])

(***************************************************************************)
(* detect_anomalies.  predictions and anomaly_scores are what the          *)
(* IsolationForest returns for the batch: -1 or 1 per record, and a score  *)
(* per record (thousandths; lower is more anomalous).  The reason text and *)
(* the medicine name of an entry are left out.                             *)
(***************************************************************************)
InsufficientAnomalies ==
    [anomalies |-> <<>>, message |-> "Insufficient data for anomaly detection"]

\* the loop of lines 385-395: the records predicted -1, in batch order
CollectAnomalies(events, predictions, anomaly_scores) ==
    LET scored == [idx \in 1..Len(events) |->
                      [event_id |-> events[idx].id,
                       severity |-> events[idx].severity,
                       anomaly_score |-> anomaly_scores[idx],
                       pred |-> predictions[idx]]]
        flagged == SelectSeq(scored, LAMBDA a : a.pred = -1)
    IN  [k \in 1..Len(flagged) |->
            [event_id |-> flagged[k].event_id,
             severity |-> flagged[k].severity,
             anomaly_score |-> flagged[k].anomaly_score]]

\* sorted(..., key=anomaly_score): stable, ascending
RECURSIVE InsertByScore(_, _)
InsertByScore(sorted, a) ==
    IF sorted = <<>> THEN <<a>>
    ELSE IF a.anomaly_score < Head(sorted).anomaly_score THEN <<a>> \o sorted
    ELSE <<Head(sorted)>> \o InsertByScore(Tail(sorted), a)

RECURSIVE SortedByScore(_)
SortedByScore(anomalies) ==
    IF anomalies = <<>> THEN <<>>
    ELSE InsertByScore(SortedByScore(SubSeq(anomalies, 1, Len(anomalies) - 1)),
                       anomalies[Len(anomalies)])

Take(seq, k) == SubSeq(seq, 1, Min(k, Len(seq)))

AnomalyReport(events, anomalies, listed) ==
    [total_events |-> Len(events),
     anomalies_detected |-> Len(anomalies),
     anomaly_rate |-> Round3(<<Len(anomalies), Len(events)>>),
     anomalies |-> listed]

\* line 401 with the slice taken before the sort
DetectAnomaliesSliceFirst(self, events, predictions, anomaly_scores) ==
    IF Len(events) < AnomalyMin THEN Returned(self, InsufficientAnomalies)
    ELSE LET features == ExtractEventFeatures(events)
             anomalies == CollectAnomalies(events, predictions, anomaly_scores)
         IN  IF ~features.ok THEN Raised(self, "DateParseError")
             ELSE Returned(
                    [self EXCEPT !.scaler = FitScaler(features),
                                 !.anomaly_detector =
                                     [fitted |-> TRUE, layout |-> features.layout,
                                      n_samples |-> Len(features.rows)]],
                    AnomalyReport(events, anomalies,
                                  SortedByScore(Take(anomalies, TopAnomalies))))

\* line 378 with transform in place of fit_transform
DetectAnomaliesNoRefit(self, events, predictions, anomaly_scores) ==
    IF Len(events) < AnomalyMin THEN Returned(self, InsufficientAnomalies)
    ELSE LET features == ExtractEventFeatures(events)
             anomalies == CollectAnomalies(events, predictions, anomaly_scores)
         IN  IF ~features.ok THEN Raised(self, "DateParseError")
             ELSE Returned(
                    [self EXCEPT !.anomaly_detector =
                                     [fitted |-> TRUE, layout |-> features.layout,
                                      n_samples |-> Len(features.rows)]],
                    AnomalyReport(events, anomalies,
                                  Take(SortedByScore(anomalies), TopAnomalies)))

\* detect_anomalies
DetectAnomalies(self, events, predictions, anomaly_scores) ==
    IF Len(events) < AnomalyMin THEN Returned(self, InsufficientAnomalies)
    ELSE LET features == ExtractEventFeatures(events)
             anomalies == CollectAnomalies(events, predictions, anomaly_scores)
         IN  IF ~features.ok THEN Raised(self, "DateParseError")
             ELSE Returned(
                    [self EXCEPT !.scaler = FitScaler(features),
                                 !.anomaly_detector =
                                     [fitted |-> TRUE, layout |-> features.layout,
                                      n_samples |-> Len(features.rows)]],
                    AnomalyReport(events, anomalies,
                                  Take(SortedByScore(anomalies), TopAnomalies)))

(***************************************************************************)
(* predict_risk_score.  proba is the probability of class 1 that a fitted  *)
(* two-class forest returns.  The call does not change the engine, so the  *)
(* scaler and the classifier it applied are those of the state it leaves.  *)
(***************************************************************************)
RuleBasedResult(event_data) ==
    LET rule_based_score == CalculateRuleBasedRisk(event_data)
    IN  [risk_score |-> rule_based_score,
         risk_level |-> ClassifyRiskLevel(rule_based_score),
         method |-> "rule_based",
         recommendations |-> GenerateRiskRecommendations(rule_based_score)]

\* predict_proba(...)[0]: one probability per class the forest was fitted on
PredictProba(classifier, proba) ==
    IF classifier.classes = {0, 1} THEN <<1000 - proba, proba>>
    ELSE <<1000>>

\* predict_risk_score
PredictRiskScore(self, event_data, proba) ==
    LET features == RiskFeatures(event_data)
    IN  IF TransformRaises(self.scaler, features)
        THEN Raised(self, "NotFittedError")
        ELSE IF ~self.risk_classifier.fitted
        THEN Returned(self, RuleBasedResult(event_data))
        ELSE
        LET risk_probability == PredictProba(self.risk_classifier, proba)
        IN  \* risk_probability[1] of the source is the second entry
            IF Len(risk_probability) < 2
            THEN Returned(self, RuleBasedResult(event_data))
            ELSE Returned(self,
                   [risk_score |-> risk_probability[2],
                    risk_level |-> ClassifyRiskLevel(risk_probability[2]),
                    confidence |-> Max(risk_probability[1], risk_probability[2]),
                    recommendations |->
                        GenerateRiskRecommendations(risk_probability[2])])

(***************************************************************************)
(* train_models.  fail_at is the joblib.dump that raises (0: none), and    *)
(* torn says whether that dump left a truncated file behind.  The          *)
(* accuracy of the summary is left out.                                    *)
(***************************************************************************)
\* the label of line 437
Label(e) == IF IsSevere(e) \/ e.required_hospitalization THEN 1 ELSE 0

\* an identity for this call, unlike that of every file still on disk
FreshCallId(d) ==
    CHOOSE k \in 1..4 : \A i \in 1..3 : d[Files[i]].call # k

AfterDump(d, i, call_id, object, fail_at, torn) ==
    IF fail_at = 0 \/ i < fail_at THEN SavedFile(call_id, object)
    ELSE IF i = fail_at /\ torn THEN CorruptFile
    ELSE d[Files[i]]

TrainModels(self, d, training_data, fail_at, torn) ==
    LET X == ExtractEventFeatures(training_data)
        called == [self EXCEPT !.train_called = TRUE]
    IN  IF ~X.ok THEN Raised(called, "DateParseError") @@ [disk |-> d]
        ELSE IF Len(training_data) = 0
        THEN Raised(called, "KeyError") @@ [disk |-> d]
        ELSE
        LET y == {Label(training_data[i]) : i \in 1..Len(training_data)}
            fitted == [called EXCEPT
                         !.scaler = FitScaler(X),
                         !.anomaly_detector =
                             [fitted |-> TRUE, layout |-> X.layout,
                              n_samples |-> Len(X.rows)],
                         !.risk_classifier =
                             [fitted |-> TRUE, layout |-> X.layout, classes |-> y]]
            call_id == FreshCallId(d)
            saved == [anomaly_detector |->
                          AfterDump(d, 1, call_id, fitted.anomaly_detector, fail_at, torn),
                      risk_classifier |->
                          AfterDump(d, 2, call_id, fitted.risk_classifier, fail_at, torn),
                      scaler |->
                          AfterDump(d, 3, call_id, fitted.scaler, fail_at, torn)]
        IN  IF fail_at # 0 THEN Raised(fitted, "OSError") @@ [disk |-> saved]
            ELSE Returned(fitted,
                          [training_samples |-> Len(training_data),
                           anomaly_detector_trained |-> TRUE,
                           risk_classifier_trained |-> TRUE])
                 @@ [disk |-> saved]

(***************************************************************************)
(* The engine's life: construction (the module-level ml_engine, once per   *)
(* process start), then calls in any order.  call is the last call, ret    *)
(* what it raised or returned.                                             *)
(***************************************************************************)
Outcome(r) == [raised |-> r.raised, value |-> r.value]

Pending == [raised |-> "none", value |-> NoValue]

Batch(len, variant) == [len |-> len, variant |-> variant]

PatternBatches == [len : {PatternMin - 1, PatternMin}, variant : {"mixed", "baddate"}]

SignalBatches == [len : {SignalMin - 1, SignalMin}, variant : {"mixed", "baddate"}]

AnomalyBatches == [len : {AnomalyMin - 1, AnomalyMin}, variant : {"mixed", "baddate"}]

TrainBatches ==
    {Batch(0, "mixed")} \cup [len : {TrainLen}, variant : {"mild", "severe", "mixed", "baddate"}]

\* what DBSCAN may answer here: all noise, or one cluster of everything
Labelings(n) == {[i \in 1..n |-> -1], [i \in 1..n |-> 0]}

\* the flagged records are those at off+1 .. off+Len(flagged), with these scores
Predictions(n, off, flagged) ==
    [i \in 1..n |-> IF i > off /\ i <= off + Len(flagged) THEN -1 ELSE 1]

AnomalyScores(n, off, flagged) ==
    [i \in 1..n |-> IF i > off /\ i <= off + Len(flagged) THEN flagged[i - off] ELSE -400]

Probas == {200, 800}

\* the training batch, when the call before was a train_models that returned
JustTrained ==
    IF call.op = "train_models" /\ ret.raised = "none" THEN call.batch ELSE Batch(0, "none")

Start ==
    /\ LET r == Construct(disk)
       IN  /\ engine' = r.self
           /\ ret' = [raised |-> r.raised, value |-> NoValue]
    /\ call' = [op |-> "__init__"]
    /\ UNCHANGED disk

Patterns ==
    /\ engine.alive
    /\ \E b \in PatternBatches : \E labels \in Labelings(b.len) :
         LET r == DetectAdverseEventPatterns(engine, Events(b), labels)
         IN  /\ engine' = r.self
             /\ ret' = Outcome(r)
             /\ call' = [op |-> "detect_adverse_event_patterns", batch |-> b]
    /\ UNCHANGED disk

Signals ==
    /\ engine.alive
    /\ \E b \in SignalBatches :
         LET r == DetectSafetySignals(engine, "M1", Events(b))
         IN  /\ engine' = r.self
             /\ ret' = Outcome(r)
             /\ call' = [op |-> "detect_safety_signals", batch |-> b]
    /\ UNCHANGED disk

Anomalies ==
    /\ engine.alive
    /\ \E b \in AnomalyBatches : \E flagged \in {<<>>, <<-700>>} :
         LET r == DetectAnomalies(engine, Events(b),
                                  Predictions(b.len, 0, flagged),
                                  AnomalyScores(b.len, 0, flagged))
         IN  /\ engine' = r.self
             /\ ret' = Outcome(r)
             /\ call' = [op |-> "detect_anomalies", batch |-> b, off |-> 0,
                         flagged |-> flagged]
    /\ UNCHANGED disk

Predict ==
    /\ engine.alive
    /\ \E b \in TrainBatches : \E i \in 1..b.len : \E proba \in Probas :
         LET r == PredictRiskScore(engine, Events(b)[i], proba)
         IN  /\ engine' = r.self
             /\ ret' = Outcome(r)
             /\ call' = [op |-> "predict_risk_score", event_data |-> Events(b)[i],
                         after_train |-> JustTrained]
    /\ UNCHANGED disk

TrainWith(fail_at, torn) ==
    /\ engine.alive
    /\ \E b \in TrainBatches :
         LET r == TrainModels(engine, disk, Events(b), fail_at, torn)
         IN  /\ engine' = r.self
             /\ disk' = r.disk
             /\ ret' = Outcome(r)
             /\ call' = [op |-> "train_models", batch |-> b]

\* train_models; models/ may be missing, and then the first dump raises
Train == \E fail_at \in {0, 1} : TrainWith(fail_at, FALSE)

\* train_models, where any of the three dumps may raise, with or without
\* leaving a truncated file
TrainOrFail ==
    \E fail_at \in 0..3 : \E torn \in (IF fail_at = 0 THEN {FALSE} ELSE BOOLEAN) :
        TrainWith(fail_at, torn)

Init ==
    /\ disk = [anomaly_detector |-> MissingFile, risk_classifier |-> MissingFile,
               scaler |-> MissingFile]
    /\ engine = NoEngine
    /\ call = [op |-> "none"]
    /\ ret = Pending

Next == Start \/ Patterns \/ Signals \/ Anomalies \/ Predict \/ Train

Spec == Init /\ [][Next]_vars

(***************************************************************************)
(* The life of the persisted artifacts: process starts and trainings on    *)
(* a disk where a dump can fail and where files can be unloadable from the *)
(* start.                                                                  *)
(***************************************************************************)
InitLifecycle ==
    /\ disk \in [anomaly_detector : {MissingFile, CorruptFile},
                 risk_classifier : {MissingFile, CorruptFile},
                 scaler : {MissingFile, CorruptFile}]
    /\ engine = NoEngine
    /\ call = [op |-> "none"]
    /\ ret = Pending

NextLifecycle == Start \/ TrainOrFail

SpecLifecycle == InitLifecycle /\ [][NextLifecycle]_vars

(***************************************************************************)
(* The pure parts, each applied once to an input drawn from a bounded set, *)
(* on the engine as it is after a construction that found no files.        *)
(***************************************************************************)
EmptyDisk ==
    [anomaly_detector |-> MissingFile, risk_classifier |-> MissingFile,
     scaler |-> MissingFile]

FreshEngine == Construct(EmptyDisk).self

\* a batch with the given numbers of severe, hospitalized, fatal, recent and
\* recent severe records
SignalCounts ==
    {c \in [n : (SignalMin - 1)..MaxSignalEvents, severe : 0..MaxSignalEvents,
            hosp : 0..MaxSignalEvents, death : 0..MaxSignalEvents,
            recent : 0..MaxSignalEvents, recent_severe : 0..MaxSignalEvents] :
        /\ c.severe <= c.n /\ c.hosp <= c.n /\ c.death <= c.n /\ c.recent <= c.n
        /\ c.recent_severe <= c.severe /\ c.recent_severe <= c.recent
        /\ c.recent - c.recent_severe <= c.n - c.severe}

SignalEvents(c) ==
    [i \in 1..c.n |->
        Event(IF i > c.severe THEN "mild"
              ELSE IF i % 2 = 0 THEN "life_threatening" ELSE "severe",
              IF i <= c.death THEN "death" ELSE "recovered",
              40, i <= c.hosp, FALSE, 1, 0, FALSE, TRUE,
              IF i <= c.recent_severe
                 \/ (i > c.severe /\ i <= c.severe + c.recent - c.recent_severe)
              THEN RecentDays ELSE RecentDays + 1)]

InitSignal ==
    /\ disk = EmptyDisk
    /\ engine = FreshEngine
    /\ call \in {[op |-> "detect_safety_signals", counts |-> c] : c \in SignalCounts}
    /\ ret = Pending

SignalCall ==
    /\ ret = Pending
    /\ LET r == DetectSafetySignals(engine, "M1", SignalEvents(call.counts))
       IN  engine' = r.self /\ ret' = Outcome(r)
    /\ UNCHANGED <<disk, call>>

SpecSignal == InitSignal /\ [][SignalCall]_vars

\* the engine after one detect_adverse_event_patterns: scaler fitted, classifier not
ScaledEngine ==
    DetectAdverseEventPatterns(FreshEngine, Events(Batch(PatternMin, "mixed")),
                               [i \in 1..PatternMin |-> -1]).self

RiskInputs ==
    {Event(sev, "unknown", age, hosp, lt, nsym, 0, FALSE, TRUE, 0) :
        sev \in Severities, age \in 0..MaxAge, hosp \in BOOLEAN, lt \in BOOLEAN,
        nsym \in 0..MaxSymptoms}

InitRisk ==
    /\ disk = EmptyDisk
    /\ engine = ScaledEngine
    /\ call \in {[op |-> "predict_risk_score", event_data |-> e,
                  after_train |-> Batch(0, "none")] : e \in RiskInputs}
    /\ ret = Pending

RiskCall ==
    /\ ret = Pending
    /\ \E proba \in Probas :
         LET r == PredictRiskScore(engine, call.event_data, proba)
         IN  engine' = r.self /\ ret' = Outcome(r)
    /\ UNCHANGED <<disk, call>>

SpecRisk == InitRisk /\ [][RiskCall]_vars

\* contamination=0.1: the forest flags about a tenth of the batch it was fitted on
FlagCap(n) == Min(MaxFlagged, n \div 10 + 1)

FlaggedScores == {-700, -600}

RECURSIVE SeqsUpTo(_, _)
SeqsUpTo(S, k) ==
    IF k = 0 THEN {<<>>}
    ELSE LET shorter == SeqsUpTo(S, k - 1)
         IN  shorter \cup {Append(q, x) : q \in {t \in shorter : Len(t) = k - 1}, x \in S}

InitAnomaly ==
    /\ disk = EmptyDisk
    /\ engine = FreshEngine
    /\ call \in {[op |-> "detect_anomalies", batch |-> b, off |-> off, flagged |-> f] :
                    b \in {Batch(AnomalyMin, "mixed"), Batch(BigBatch, "mixed")},
                    off \in {0, 1},
                    f \in SeqsUpTo(FlaggedScores, MaxFlagged)}
    /\ Len(call.flagged) <= FlagCap(call.batch.len)
    /\ ret = Pending

AnomalyCall ==
    /\ ret = Pending
    /\ \E events \in {Events(call.batch)} :
       \E predictions \in {Predictions(call.batch.len, call.off, call.flagged)} :
       \E anomaly_scores \in {AnomalyScores(call.batch.len, call.off, call.flagged)} :
         LET r == DetectAnomalies(engine, events, predictions, anomaly_scores)
         IN  engine' = r.self /\ ret' = Outcome(r)
    /\ UNCHANGED <<disk, call>>

SpecAnomaly == InitAnomaly /\ [][AnomalyCall]_vars

(***************************************************************************)
(* Properties.                                                             *)
(***************************************************************************)
StatsOf(b) == FitScaler(ExtractEventFeatures(Events(b)))

Scored == call.op = "predict_risk_score"

\* C1: on an engine on which train_models was never called and that loaded no
\* persisted bundle, predict_risk_score never raises and answers with
\* method = 'rule_based'.
C1_UntrainedScoresByRule ==
    (Scored /\ ~engine.train_called /\ ~engine.loaded)
        => /\ ret.raised = "none"
           /\ "method" \in DOMAIN ret.value
           /\ ret.value.method = "rule_based"

\* C2: predict_risk_score called right after a train_models that returned, on
\* a record of that training set, takes the ML path: a confidence, and no
\* method = 'rule_based'.
C2_TrainThenScoreIsLearned ==
    (/\ Scored
     /\ call.after_train.variant # "none"
     /\ \E i \in 1..call.after_train.len :
            Events(call.after_train)[i] = call.event_data)
        => /\ ret.raised = "none"
           /\ "confidence" \in DOMAIN ret.value
           /\ "method" \notin DOMAIN ret.value

(* C3 *)
DeathOver == 100 * call.counts.death > 2 * call.counts.n

HospOver == 100 * call.counts.hosp > 15 * call.counts.n

RecentOver == 10 * call.counts.recent_severe > 3 * Max(call.counts.recent, 1)

SevereOver == 100 * call.counts.severe > 20 * call.counts.n

Tier ==
    IF DeathOver THEN "critical"
    ELSE IF HospOver \/ RecentOver THEN "high"
    ELSE IF SevereOver THEN "moderate"
    ELSE "low"

\* C3: for 5 records or more, the tier of a detected signal is the first match
\* of: death rate > 0.02 critical; hospitalization rate > 0.15 or recent severe
\* rate > 0.3 high; severe rate > 0.20 moderate; else low.  A death rate
\* over 0.02 always gives a detected signal of tier critical.
C3_TierIsPriorityCascade ==
    (call.op = "detect_safety_signals" /\ ret # Pending /\ call.counts.n >= 5)
        => /\ ret.raised = "none"
           /\ ret.value.signal_detected => ret.value.signal_type = Tier
           /\ DeathOver => /\ ret.value.signal_detected
                           /\ ret.value.signal_type = "critical"

C3_CriticalOverHighRates ==
    /\ call.op = "detect_safety_signals" /\ ret # Pending
    /\ call.counts.n >= 5
    /\ DeathOver /\ HospOver /\ RecentOver /\ SevereOver
    /\ call.counts.death < call.counts.n
    /\ ret.value.signal_type = "critical"

(* C4 *)
SeverityRank(severity) ==
    CASE severity = "mild" -> 1
      [] severity = "moderate" -> 2
      [] severity = "severe" -> 3
      [] severity = "life_threatening" -> 4
      [] OTHER -> 0

AgeQualifies(age) == age < 5 \/ age > 75

\* the records that differ from e in one input, by one more condition met
OneMore(e) ==
    {[e EXCEPT !.severity = s2] :
        s2 \in {x \in Severities : /\ SeverityRank(e.severity) > 0
                                   /\ SeverityRank(x) > SeverityRank(e.severity)}}
    \cup (IF e.required_hospitalization THEN {}
          ELSE {[e EXCEPT !.required_hospitalization = TRUE]})
    \cup (IF e.life_threatening THEN {} ELSE {[e EXCEPT !.life_threatening = TRUE]})
    \cup (IF AgeQualifies(e.patient_age) THEN {}
          ELSE {[e EXCEPT !.patient_age = a] : a \in {x \in 0..MaxAge : AgeQualifies(x)}})
    \cup (IF e.symptoms > 5 THEN {}
          ELSE {[e EXCEPT !.symptoms = k] : k \in 6..MaxSymptoms})

IsExample(e) ==
    /\ e.severity = "life_threatening" /\ e.required_hospitalization
    /\ e.life_threatening /\ e.patient_age = 80 /\ e.symptoms = 6

\* C4: the rule-based score lies in [0,1]; one more qualifying condition met,
\* the rest unchanged, never lowers it; life_threatening, hospitalized,
\* flagged, aged 80, with 6 symptoms scores 1.0 and is critical.
C4_RuleScoreBoundedMonotone ==
    (Scored /\ ret # Pending /\ ~engine.risk_classifier.fitted)
        => /\ ret.raised = "none"
           /\ ret.value.method = "rule_based"
           /\ ret.value.risk_score >= 0 /\ ret.value.risk_score <= 1000
           /\ \A e2 \in OneMore(call.event_data) :
                  CalculateRuleBasedRisk(e2) >= ret.value.risk_score
           /\ IsExample(call.event_data)
                  => ret.value.risk_score = 1000 /\ ret.value.risk_level = "critical"

C4_ExampleScoredCritical ==
    /\ Scored /\ ret # Pending /\ ~engine.risk_classifier.fitted
    /\ IsExample(call.event_data)
    /\ ret.value.risk_score = 1000
    /\ ret.value.risk_level = "critical"

\* C5: below its minimum (10 for patterns, 5 for signals, 20 for anomalies) a
\* call returns the insufficient-data value and raises nothing; at the
\* minimum it does the computation: 9 records give an empty pattern list
\* and the message, 10 are clustered.
C5_BelowMinimumIsAValue ==
    /\ call.op = "detect_adverse_event_patterns" =>
         IF call.batch.len < 10
         THEN ret = [raised |-> "none",
                     value |-> [patterns |-> <<>>,
                                message |-> "Insufficient data for pattern detection"]]
         ELSE /\ "message" \notin DOMAIN ret.value
              /\ call.batch.variant = "mixed" =>
                   /\ ret.raised = "none"
                   /\ "total_clusters" \in DOMAIN ret.value
                   /\ engine.scaler = StatsOf(call.batch)
    /\ call.op = "detect_safety_signals" =>
         IF call.batch.len < 5
         THEN ret = [raised |-> "none",
                     value |-> [signal_detected |-> FALSE,
                                message |-> "Insufficient data for signal detection"]]
         ELSE /\ "message" \notin DOMAIN ret.value
              /\ call.batch.variant = "mixed" =>
                   ret.raised = "none" /\ "metrics" \in DOMAIN ret.value
    /\ call.op = "detect_anomalies" =>
         IF call.batch.len < 20
         THEN ret = [raised |-> "none",
                     value |-> [anomalies |-> <<>>,
                                message |-> "Insufficient data for anomaly detection"]]
         ELSE /\ "message" \notin DOMAIN ret.value
              /\ call.batch.variant = "mixed" =>
                   ret.raised = "none" /\ "anomaly_rate" \in DOMAIN ret.value

C5_TenRecordsClustered ==
    /\ call.op = "detect_adverse_event_patterns"
    /\ call.batch.len = 10
    /\ ret.raised = "none"
    /\ "total_clusters" \in DOMAIN ret.value
    /\ ret.value.total_clusters = 1
    /\ ret.value.patterns[1].size = 10

(* C6 *)
FlaggedIds == {i \in 1..call.batch.len : i > call.off /\ i <= call.off + Len(call.flagged)}

ScoreOf(i) == call.flagged[i - call.off]

Listed == {ret.value.anomalies[k].event_id : k \in 1..Len(ret.value.anomalies)}

\* C6: for 20 records or more, the anomalies returned are at most 10, ascending
\* by anomaly_score, and are the lowest-scoring of the flagged records: no
\* flagged record left out scores lower than one returned; anomalies_detected
\* and anomaly_rate count every flagged record.
C6_TenLowestAscending ==
    (call.op = "detect_anomalies" /\ ret # Pending /\ call.batch.len >= 20)
        => LET out == ret.value.anomalies
           IN  /\ ret.raised = "none"
               /\ Len(out) <= 10
               /\ Len(out) = Min(10, Cardinality(FlaggedIds))
               /\ Cardinality(Listed) = Len(out)
               /\ \A k \in 1..Len(out) :
                      /\ out[k].event_id \in FlaggedIds
                      /\ out[k].anomaly_score = ScoreOf(out[k].event_id)
               /\ \A k \in 1..(Len(out) - 1) :
                      out[k].anomaly_score <= out[k + 1].anomaly_score
               /\ \A i \in FlaggedIds \ Listed : \A k \in 1..Len(out) :
                      ScoreOf(i) >= out[k].anomaly_score
               /\ ret.value.anomalies_detected = Cardinality(FlaggedIds)
               /\ ret.value.anomaly_rate
                      = Round3(<<Cardinality(FlaggedIds), call.batch.len>>)

C6_EleventhDisplacesAnEarlier ==
    /\ call.op = "detect_anomalies" /\ ret # Pending
    /\ Cardinality(FlaggedIds) = 11
    /\ Len(ret.value.anomalies) = 10
    /\ ret.value.anomalies_detected = 11
    /\ ret.value.anomalies[1].event_id = call.off + 11
    /\ \E i \in FlaggedIds \ Listed : ScoreOf(i) > ret.value.anomalies[1].anomaly_score

\* C7: a construction that meets a missing or unloadable artifact completes
\* without an error and leaves the engine with a fresh detector, a fresh
\* classifier and a fresh normalizer.
C7_LoadFailureRecovered ==
    (/\ call.op = "__init__"
     /\ \E i \in 1..3 : disk[Files[i]].state # "ok")
        => /\ ret.raised = "none"
           /\ engine.alive
           /\ engine.anomaly_detector = FreshDetector
           /\ engine.risk_classifier = FreshClassifier
           /\ engine.scaler = UnfittedScaler

(* C8 *)
Refitting == {"detect_adverse_event_patterns", "detect_anomalies", "train_models"}

\* a call of the three refitting methods that had enough records
EnoughToRefit ==
    \/ call.op = "detect_adverse_event_patterns" /\ call.batch.len >= 10
    \/ call.op = "detect_anomalies" /\ call.batch.len >= 20
    \/ call.op = "train_models"

\* such a call that got as far as scaler.fit_transform
RanFit ==
    /\ EnoughToRefit
    /\ ret.raised \notin {"DateParseError", "KeyError"}

C9_LayoutsNotInterchanged ==
    (Scored /\ ret.raised = "none")
        => /\ engine.scaler.layout = "risk"
           /\ engine.risk_classifier.fitted => engine.risk_classifier.layout = "risk"

\* C10: the artifacts on disk were all written by one train_models call, also
\* after a call whose dump failed part-way; a construction never loads
\* components of different trainings.
C10_BundleIsOneUnit ==
    /\ \A i, j \in 1..3 :
          (disk[Files[i]].state = "ok" /\ disk[Files[j]].state = "ok")
              => disk[Files[i]].call = disk[Files[j]].call
    /\ (call.op = "__init__" /\ engine.loaded)
          => /\ disk.anomaly_detector.call = disk.risk_classifier.call
             /\ disk.risk_classifier.call = disk.scaler.call

====
